---- MODULE Spec2Model ----
(***************************************************************************)
(* A model of pydicom_seg/reader.py: one decoding session of a DICOM-SEG   *)
(* dataset by SegmentReader or MultiClassReader.                           *)
(*                                                                         *)
(* Physical positions, spacings and distances are exact integers (a common *)
(* length unit); quotients are exact rationals; floating-point rounding is *)
(* not modelled.  Sequences are 1-based here, 0-based in the source: slice *)
(* index k of the source is element k + 1 of a buffer.                     *)
(***************************************************************************)
EXTENDS Integers, Sequences, FiniteSets, TLC

VARIABLES
    reader,          \* the class being constructed
    dataset,         \* the pydicom dataset handed to __init__ (read-only)
    pc,              \* position of the session in __init__ / _decode
    error,           \* the exception that ended the session, or "none"
    segment_infos,   \* self.segment_infos: insertion-ordered dict, as a sequence of SegmentInfo
    spacing,         \* self.spacing
    direction,       \* self.direction, a tuple of rows
    origin,          \* self.origin
    extent,          \* the local extent of __init__
    size,            \* self.size
    dtype,           \* element type of segment_buffer
    segment_buffer,  \* the numpy buffer of _decode, a sequence of slices
    segment_idx,     \* position of the outer loop of SegmentReader._decode in segment_infos
    frame_idx,       \* position of the loop over the frames (0-based, as in the source)
    segment_images,  \* SegmentReader.segment_images
    image            \* MultiClassReader.image

vars == <<reader, dataset, pc, error, segment_infos, spacing, direction, origin,
          extent, size, dtype, segment_buffer, segment_idx, frame_idx,
          segment_images, image>>

---------------------------------------------------------------------------
\* Bounds of the model.

\* Largest number of frames of a dataset of Spec.
MaxFrames == 2

\* Largest number of segment declarations of a dataset of Spec.
MaxSegments == 2

\* Largest number of frames of a dataset of SpecGeom.
GeomMaxFrames == 3

\* Largest coordinate of a frame position of SpecGeom along the third axis.
GeomMaxZ == 4

---------------------------------------------------------------------------
\* Vectors and exact arithmetic.

Dot(a, b) == a[1] * b[1] + a[2] * b[2] + a[3] * b[3]

Sub(a, b) == <<a[1] - b[1], a[2] - b[2], a[3] - b[3]>>

\* np.cross
Cross(a, b) == <<a[2] * b[3] - a[3] * b[2],
                 a[3] * b[1] - a[1] * b[3],
                 a[1] * b[2] - a[2] * b[1]>>

\* np.linalg.norm, for the vectors whose norm is an integer
Norm(v) == CHOOSE n \in 0..Dot(v, v) : n * n = Dot(v, v)

\* v / np.linalg.norm(v), for the vectors the norm divides
Normalize(v) == <<v[1] \div Norm(v), v[2] \div Norm(v), v[3] \div Norm(v)>>

Abs(x) == IF x < 0 THEN -x ELSE x

\* np.ceil(a / b) for b > 0
Ceil(a, b) == -((-a) \div b)

\* a / b rounded to the nearest integer, halves upwards (itk::Math::RoundHalfIntegerUp)
RoundHalfUp(a, b) == (2 * a + b) \div (2 * b)

---------------------------------------------------------------------------
\* _ReaderBase._decode_segments

\* A faulty variant of DeclaredTwice: a repeated number is never noticed.
DeclaredTwiceNever(number, infos) == FALSE

\* segment.SegmentNumber in self.segment_infos
DeclaredTwice(number, infos) == \E i \in 1..Len(infos) : infos[i].number = number

\* SegmentInfo(number=segment.SegmentNumber, label=segment.SegmentLabel, ...)
SegmentInfo(segment) == [number |-> segment.SegmentNumber, label |-> segment.SegmentLabel]

\* self.segment_infos[key] = info : an existing key keeps its place, a new one is appended
DictSet(infos, info) ==
    IF \E i \in 1..Len(infos) : infos[i].number = info.number
    THEN [i \in 1..Len(infos) |-> IF infos[i].number = info.number THEN info ELSE infos[i]]
    ELSE Append(infos, info)

RECURSIVE decode_segments_from(_, _, _)
\* The loop of _decode_segments from declaration i on, with the dict so far.
decode_segments_from(SegmentSequence, i, infos) ==
    IF i > Len(SegmentSequence)
    THEN [segment_infos |-> infos, error |-> "none"]
    ELSE IF DeclaredTwice(SegmentSequence[i].SegmentNumber, infos)
         THEN [segment_infos |-> infos, error |-> "DuplicateSegment"]
         ELSE decode_segments_from(SegmentSequence, i + 1,
                                   DictSet(infos, SegmentInfo(SegmentSequence[i])))

decode_segments(ds) == decode_segments_from(ds.SegmentSequence, 1, << >>)

\* self.segment_infos.keys(), in insertion order
Keys(infos) == [i \in 1..Len(infos) |-> infos[i].number]

---------------------------------------------------------------------------
\* _ReaderBase._get_declared_image_spacing

get_declared_image_spacing(ds) ==
    LET pixel_measures == ds.PixelMeasures
        z_spacing == IF "SpacingBetweenSlices" \in DOMAIN pixel_measures
                     THEN pixel_measures.SpacingBetweenSlices
                     ELSE pixel_measures.SliceThickness
    IN  <<pixel_measures.PixelSpacing[1], pixel_measures.PixelSpacing[2], z_spacing>>

\* _ReaderBase._get_image_direction: the rows of np.stack([x_dir, y_dir, z_dir], axis=1)
get_image_direction(ds) ==
    LET iop == ds.ImageOrientationPatient
        x_dir == Normalize(<<iop[1], iop[2], iop[3]>>)
        y_dir == Normalize(<<iop[4], iop[5], iop[6]>>)
        z_dir == Cross(x_dir, y_dir)
    IN  <<<<x_dir[1], y_dir[1], z_dir[1]>>,
          <<x_dir[2], y_dir[2], z_dir[2]>>,
          <<x_dir[3], y_dir[3], z_dir[3]>>>>

\* direction[:, 2]
SliceDir(dir) == <<dir[1][3], dir[2][3], dir[3][3]>>

---------------------------------------------------------------------------
\* _ReaderBase._get_image_origin_and_extent

\* frame.PlanePositionSequence[0].ImagePositionPatient
Position(frame) == frame.ImagePositionPatient

\* frame_position in distances : the dict is a sequence of <<key, value>> pairs
InDistances(frame_position, distances) ==
    \E i \in 1..Len(distances) : distances[i][1] = frame_position

\* A faulty variant of IsNewMinimum: the comparison is reversed.
IsNewMinimumReversed(idx, frame_distance, min_distance) ==
    idx = 0 \/ frame_distance > min_distance

\* frame_idx == 0 or frame_distance < min_distance
IsNewMinimum(idx, frame_distance, min_distance) ==
    idx = 0 \/ frame_distance < min_distance

RECURSIVE origin_loop(_, _, _, _, _)
\* The loop over the frames from frame i (1-based) on; acc holds min_distance,
\* origin and distances.
origin_loop(frames, slice_dir, reference_position, i, acc) ==
    IF i > Len(frames)
    THEN acc
    ELSE LET frame_position == Position(frames[i])
             frame_distance == Dot(Sub(frame_position, reference_position), slice_dir)
             new_min == IsNewMinimum(i - 1, frame_distance, acc.min_distance)
         IN  IF InDistances(frame_position, acc.distances)
             THEN origin_loop(frames, slice_dir, reference_position, i + 1, acc)
             ELSE origin_loop(frames, slice_dir, reference_position, i + 1,
                    [min_distance |-> IF new_min THEN frame_distance ELSE acc.min_distance,
                     origin       |-> IF new_min THEN frame_position ELSE acc.origin,
                     distances    |-> Append(acc.distances,
                                             <<frame_position, frame_distance>>)])

\* distances.values()
Values(distances) == [i \in 1..Len(distances) |-> distances[i][2]]

RECURSIVE Insert(_, _)
\* x inserted into the ascending sequence s
Insert(s, x) ==
    IF s = << >> THEN <<x>>
    ELSE IF x <= Head(s) THEN <<x>> \o s
         ELSE <<Head(s)>> \o Insert(Tail(s), x)

RECURSIVE InsertionSort(_)
InsertionSort(s) == IF s = << >> THEN << >> ELSE Insert(InsertionSort(Tail(s)), Head(s))

\* A faulty variant of Sorted: the distances are left in insertion order.
SortedNot(s) == s

\* sorted(...)
Sorted(s) == InsertionSort(s)

\* Lines 153-156: the extent from the dict of distances
ExtentOf(distances) ==
    LET sorted == Sorted(Values(distances))
    IN  IF Len(sorted) > 1 THEN Abs(sorted[1] - sorted[Len(sorted)]) ELSE 0

\* A faulty variant of get_image_origin_and_extent: the reference frame is the origin.
get_image_origin_and_extent_reference(frames, dir) ==
    LET acc == origin_loop(frames, SliceDir(dir), Position(frames[1]), 1,
                           [min_distance |-> "None", origin |-> "None", distances |-> << >>])
    IN  [origin |-> Position(frames[1]), extent |-> ExtentOf(acc.distances)]

get_image_origin_and_extent(frames, dir) ==
    LET slice_dir == SliceDir(dir)
        reference_position == Position(frames[1])
        acc == origin_loop(frames, slice_dir, reference_position, 1,
                           [min_distance |-> "None", origin |-> "None", distances |-> << >>])
    IN  [origin |-> acc.origin, extent |-> ExtentOf(acc.distances)]

\* A faulty variant of SliceCount: the quotient is rounded down.
SliceCountFloor(ext, z_spacing) == (ext \div z_spacing) + 1

\* int(np.ceil(extent / self.spacing[-1]) + 1)
SliceCount(ext, z_spacing) == Ceil(ext, z_spacing) + 1

---------------------------------------------------------------------------
\* The collaborators: numpy arrays and the SimpleITK point-to-index transform.

\* The index pairs of a 2-D array of shape (n, m)
Shape2(n, m) == (1..n) \X (1..m)

\* dummy.TransformPhysicalPointToIndex(frame_position): the continuous index
\* (D S)^-1 (p - o), each component rounded half up; the inverse of a direction
\* matrix with orthonormal columns is its transpose.
TransformPhysicalPointToIndex(org, spc, dir, frame_position) ==
    LET d == Sub(frame_position, org)
        col(k) == <<dir[1][k], dir[2][k], dir[3][k]>>
    IN  [k \in 1..3 |-> RoundHalfUp(Dot(col(k), d), spc[k])]

\* frame_index[2] of the frame at frame_idx
FrameSliceIndex(org, spc, dir, frame) ==
    TransformPhysicalPointToIndex(org, spc, dir, Position(frame))[3]

\* numpy's segment_buffer[k]: k counts from the end when negative; the result is
\* the 1-based slice, or 0 where numpy raises IndexError.
NumpyAxis0(k, n) ==
    IF 0 <= k /\ k < n THEN k + 1
    ELSE IF -n <= k /\ k < 0 THEN n + k + 1
         ELSE 0

\* np.zeros(self.size[::-1], dtype): shape (slices, Columns, Rows)
Zeros(sz, zero) == [k \in 1..sz[3] |-> [ix \in Shape2(sz[2], sz[1]) |-> zero]]

\* An array of shape (Rows, Columns) can be assigned to, or mask, a slice of shape
\* (Columns, Rows) only when the two shapes agree.
ShapesAgree(sz) == sz[1] = sz[2]

RECURSIVE GCD(_, _)
GCD(a, b) == IF b = 0 THEN a ELSE GCD(b, a % b)

\* The float a / b, as a reduced fraction
Fraction(a, b) == <<a \div GCD(a, b), b \div GCD(a, b)>>

\* The zero of np.zeros for the element type
ZeroOf(dt) == IF dt = "float32" THEN <<0, 1>> ELSE 0

---------------------------------------------------------------------------
\* SegmentReader._decode

\* np.uint8 if segmentation_type == SegmentationType.BINARY else np.float32
SegmentDtype(segmentation_type) == IF segmentation_type = "BINARY" THEN "uint8" ELSE "float32"

\* Lines 183-187: slice_data of the frame at 1-based position i
SliceData(ds, i) ==
    IF ds.SegmentationType = "FRACTIONAL"
    THEN [ix \in DOMAIN ds.pixel_array[i] |->
              Fraction(ds.pixel_array[i][ix], ds.MaximumFractionalValue)]
    ELSE ds.pixel_array[i]

\* Lines 179-180: the frame is passed over by the scan of segment_number
Skipped(segment_number, pffg) == segment_number # pffg.ReferencedSegmentNumber

---------------------------------------------------------------------------
\* MultiClassReader._decode

\* segmentation_type != SegmentationType.BINARY
TypeRejected(segmentation_type) == segmentation_type # "BINARY"

\* self.dataset.get('SegmentsOverlap', SegmentsOverlap.UNDEFINED)
GetSegmentsOverlap(ds) ==
    IF ds.SegmentsOverlap = "ABSENT" THEN "UNDEFINED" ELSE ds.SegmentsOverlap

\* A faulty variant of OverlapRejected: UNDEFINED is rejected as well.
OverlapRejectedUndefined(segments_overlap) == segments_overlap \in {"YES", "UNDEFINED"}

\* segments_overlap == SegmentsOverlap.YES
OverlapRejected(segments_overlap) == segments_overlap = "YES"

\* max(self.segment_infos.keys())
MaxKey(infos) ==
    CHOOSE m \in {infos[i].number : i \in 1..Len(infos)} :
        \A i \in 1..Len(infos) : infos[i].number <= m

\* Lines 215-218: the width in bits of the element type
MultiDtypeBits(max_segment_number) == IF max_segment_number < 256 THEN 8 ELSE 16

DtypeName(bits) == IF bits = 8 THEN "uint8" ELSE "uint16"

DtypeBits(dt) == IF dt = "uint8" THEN 8 ELSE 16

\* 2^bits
Pow2(bits) == IF bits = 8 THEN 256 ELSE 65536

\* Line 235: the slice after segment_buffer[k][mask] = value
MaskedStore(slice, pixels, value) ==
    [ix \in DOMAIN slice |-> IF pixels[ix] > 0 THEN value ELSE slice[ix]]

---------------------------------------------------------------------------
\* The session.

Frames == dataset.PerFrameFunctionalGroupsSequence

NFrames == Len(Frames)

Fail(kind) ==
    /\ pc' = "failed"
    /\ error' = kind

\* __init__, lines 48-49
DecodeSegments ==
    /\ pc = "decode_segments"
    /\ LET r == decode_segments(dataset) IN
         /\ segment_infos' = r.segment_infos
         /\ error' = r.error
         /\ pc' = IF r.error = "none" THEN "geometry" ELSE "failed"
    /\ UNCHANGED <<reader, dataset, spacing, direction, origin, extent, size, dtype,
                   segment_buffer, segment_idx, frame_idx, segment_images, image>>

\* __init__, lines 51-54
ResolveGeometry ==
    /\ pc = "geometry"
    /\ LET spc == get_declared_image_spacing(dataset)
           dir == get_image_direction(dataset)
           oe  == get_image_origin_and_extent(Frames, dir)
       IN  /\ spacing' = spc
           /\ direction' = dir
           /\ origin' = oe.origin
           /\ extent' = oe.extent
           /\ size' = <<dataset.Rows, dataset.Columns, SliceCount(oe.extent, spc[3])>>
    /\ pc' = "decode"
    /\ UNCHANGED <<reader, dataset, error, segment_infos, dtype, segment_buffer,
                   segment_idx, frame_idx, segment_images, image>>

\* SegmentReader._decode, lines 165-169
SegmentAllocate ==
    /\ pc = "decode"
    /\ reader = "SegmentReader"
    /\ dtype' = SegmentDtype(dataset.SegmentationType)
    /\ segment_buffer' = Zeros(size, ZeroOf(SegmentDtype(dataset.SegmentationType)))
    /\ segment_images' = << >>
    /\ segment_idx' = 1
    /\ frame_idx' = 0
    /\ pc' = "segment_frames"
    /\ UNCHANGED <<reader, dataset, error, segment_infos, spacing, direction, origin,
                   extent, size, image>>

\* SegmentReader._decode, lines 178-189: one pass of the loop over the frames
SegmentFrame ==
    /\ pc = "segment_frames"
    /\ frame_idx < NFrames
    /\ LET pffg == Frames[frame_idx + 1]
           k == NumpyAxis0(FrameSliceIndex(origin, spacing, direction, pffg), size[3])
       IN  IF Skipped(Keys(segment_infos)[segment_idx], pffg)
           THEN /\ frame_idx' = frame_idx + 1
                /\ UNCHANGED <<pc, error, segment_buffer>>
           ELSE IF k = 0
           THEN /\ Fail("IndexError")
                /\ UNCHANGED <<frame_idx, segment_buffer>>
           ELSE IF ~ShapesAgree(size)
           THEN /\ Fail("ShapeMismatch")
                /\ UNCHANGED <<frame_idx, segment_buffer>>
           ELSE /\ segment_buffer' =
                     [segment_buffer EXCEPT ![k] = SliceData(dataset, frame_idx + 1)]
                /\ frame_idx' = frame_idx + 1
                /\ UNCHANGED <<pc, error>>
    /\ UNCHANGED <<reader, dataset, segment_infos, spacing, direction, origin, extent,
                   size, dtype, segment_idx, segment_images, image>>

\* SegmentReader._decode, lines 191-197, and the step of the loop over the segments
SegmentImage ==
    /\ pc = "segment_frames"
    /\ frame_idx = NFrames
    /\ segment_images' =
         [n \in DOMAIN segment_images \cup {Keys(segment_infos)[segment_idx]} |->
             IF n = Keys(segment_infos)[segment_idx] THEN segment_buffer
             ELSE segment_images[n]]
    /\ segment_idx' = segment_idx + 1
    /\ frame_idx' = 0
    /\ pc' = IF segment_idx = Len(segment_infos) THEN "done" ELSE "segment_frames"
    /\ UNCHANGED <<reader, dataset, error, segment_infos, spacing, direction, origin,
                   extent, size, dtype, segment_buffer, image>>

\* MultiClassReader._decode, lines 203-228
MultiClassCheck ==
    /\ pc = "decode"
    /\ reader = "MultiClassReader"
    /\ IF TypeRejected(dataset.SegmentationType)
       THEN /\ Fail("UnsupportedSegmentationType")
            /\ UNCHANGED <<dtype, segment_buffer, frame_idx>>
       ELSE IF OverlapRejected(GetSegmentsOverlap(dataset))
       THEN /\ Fail("OverlappingSegments")
            /\ UNCHANGED <<dtype, segment_buffer, frame_idx>>
       ELSE /\ dtype' = DtypeName(MultiDtypeBits(MaxKey(segment_infos)))
            /\ segment_buffer' = Zeros(size, 0)
            /\ frame_idx' = 0
            /\ pc' = "multiclass_frames"
            /\ UNCHANGED error
    /\ UNCHANGED <<reader, dataset, segment_infos, spacing, direction, origin, extent,
                   size, segment_idx, segment_images, image>>

\* What numpy does with a Python integer assigned into an integer array: a value
\* the element type holds is stored; one beyond it is reduced modulo 2^bits by the
\* releases that convert silently and raises OverflowError in the later ones.
StoreOutcomes(value, bits) ==
    IF value < Pow2(bits) THEN {"store"} ELSE {"store", "OverflowError"}

\* MultiClassReader._decode, lines 231-235: one pass of the loop over the frames
MultiClassFrame ==
    /\ pc = "multiclass_frames"
    /\ frame_idx < NFrames
    /\ LET pffg == Frames[frame_idx + 1]
           referenced_segment_number == pffg.ReferencedSegmentNumber
           k == NumpyAxis0(FrameSliceIndex(origin, spacing, direction, pffg), size[3])
       IN  IF k = 0
           THEN /\ Fail("IndexError")
                /\ UNCHANGED <<frame_idx, segment_buffer>>
           ELSE IF ~ShapesAgree(size)
           THEN /\ Fail("ShapeMismatch")
                /\ UNCHANGED <<frame_idx, segment_buffer>>
           ELSE \E outcome \in StoreOutcomes(referenced_segment_number, DtypeBits(dtype)) :
                  IF outcome = "OverflowError"
                  THEN /\ Fail("OverflowError")
                       /\ UNCHANGED <<frame_idx, segment_buffer>>
                  ELSE /\ segment_buffer' =
                            [segment_buffer EXCEPT ![k] =
                                MaskedStore(segment_buffer[k],
                                            dataset.pixel_array[frame_idx + 1],
                                            referenced_segment_number % Pow2(DtypeBits(dtype)))]
                       /\ frame_idx' = frame_idx + 1
                       /\ UNCHANGED <<pc, error>>
    /\ UNCHANGED <<reader, dataset, segment_infos, spacing, direction, origin, extent,
                   size, dtype, segment_idx, segment_images, image>>

\* MultiClassReader._decode, lines 237-241
MultiClassImage ==
    /\ pc = "multiclass_frames"
    /\ frame_idx = NFrames
    /\ image' = segment_buffer
    /\ pc' = "done"
    /\ UNCHANGED <<reader, dataset, error, segment_infos, spacing, direction, origin,
                   extent, size, dtype, segment_buffer, segment_idx, frame_idx,
                   segment_images>>

Next ==
    \/ DecodeSegments
    \/ ResolveGeometry
    \/ SegmentAllocate
    \/ SegmentFrame
    \/ SegmentImage
    \/ MultiClassCheck
    \/ MultiClassFrame
    \/ MultiClassImage

---------------------------------------------------------------------------
\* The datasets of the model, and the state after the dataset is handed over.

\* The segment numbers of the model: one below and one at the 8-bit limit
SegmentNumbers == {1, 256}

Readers == {"SegmentReader", "MultiClassReader"}

\* A frame payload of shape (Rows, Columns): all ones, ones in the last column only
PixelArray(pattern, rows, columns) ==
    [ix \in Shape2(rows, columns) |->
        IF pattern = "full" \/ ix[2] = columns THEN 1 ELSE 0]

\* The dataset with the given declarations and frames; f[i] gives position,
\* referenced number and payload pattern of frame i
Dataset(declared, f, kind, measures, iop, shape) ==
    [SegmentSequence |->
         [i \in DOMAIN declared |-> [SegmentNumber |-> declared[i], SegmentLabel |-> i]],
     PerFrameFunctionalGroupsSequence |->
         [i \in DOMAIN f |-> [ImagePositionPatient |-> f[i].pos,
                              ReferencedSegmentNumber |-> f[i].ref]],
     pixel_array |-> [i \in DOMAIN f |-> PixelArray(f[i].pix, shape[1], shape[2])],
     SegmentationType |-> kind[1],
     SegmentsOverlap |-> kind[2],
     MaximumFractionalValue |-> 2,
     PixelMeasures |-> measures,
     ImageOrientationPatient |-> iop,
     Rows |-> shape[1],
     Columns |-> shape[2]]

SeqsUpTo(S, n) == UNION {[1..m -> S] : m \in 1..n}

InitWith(readers, datasets) ==
    /\ reader \in readers
    /\ dataset \in datasets
    /\ pc = "decode_segments"
    /\ error = "none"
    /\ segment_infos = << >>
    /\ spacing = << >>
    /\ direction = << >>
    /\ origin = << >>
    /\ extent = 0
    /\ size = << >>
    /\ dtype = "none"
    /\ segment_buffer = << >>
    /\ segment_idx = 0
    /\ frame_idx = 0
    /\ segment_images = << >>
    /\ image = << >>

\* Spec: every combination of declarations, frame references, payloads, kinds and
\* overlap flags, on two slice positions.
AssemblyFrames ==
    [pos : {<<0, 0, 0>>, <<0, 0, 1>>}, ref : SegmentNumbers, pix : {"full", "part"}]

AssemblyKinds ==
    {<<"BINARY", "ABSENT">>, <<"BINARY", "NO">>, <<"BINARY", "UNDEFINED">>,
     <<"BINARY", "YES">>, <<"FRACTIONAL", "ABSENT">>, <<"FRACTIONAL", "YES">>}

AssemblyDatasets ==
    {Dataset(declared, f, kind, [PixelSpacing |-> <<1, 1>>, SliceThickness |-> 1],
             <<1, 0, 0, 0, 1, 0>>, shape) :
        declared \in SeqsUpTo(SegmentNumbers, MaxSegments),
        f \in SeqsUpTo(AssemblyFrames, MaxFrames),
        kind \in AssemblyKinds,
        shape \in {<<2, 2>>, <<1, 2>>}}

Init == InitWith(Readers, AssemblyDatasets)

Spec == Init /\ [][Next]_vars

\* SpecGeom: every list of frame positions, orientation and slice spacing, with one
\* declared segment.
GeomPositions ==
    {<<0, 0, z>> : z \in 0..GeomMaxZ} \cup {<<1, 0, 0>>}

GeomMeasures ==
    {[PixelSpacing |-> <<1, 1>>, SliceThickness |-> 1],
     [PixelSpacing |-> <<1, 1>>, SliceThickness |-> 2],
     [PixelSpacing |-> <<1, 1>>, SliceThickness |-> 1, SpacingBetweenSlices |-> 3]}

GeomOrientations ==
    {<<1, 0, 0, 0, 1, 0>>, <<0, 2, 0, 0, 0, -1>>}

GeomDatasets ==
    {Dataset(<<1>>, f, <<"BINARY", "ABSENT">>, measures, iop, <<2, 2>>) :
        f \in SeqsUpTo([pos : GeomPositions, ref : {1}, pix : {"full"}], GeomMaxFrames),
        measures \in GeomMeasures,
        iop \in GeomOrientations}

InitGeom == InitWith(Readers, GeomDatasets)

SpecGeom == InitGeom /\ [][Next]_vars

---------------------------------------------------------------------------
\* What the properties speak of.

Max(S) == CHOOSE m \in S : \A x \in S : x <= m

Min(S) == CHOOSE m \in S : \A x \in S : m <= x

\* The numbers of the segment declarations
DeclaredNumbers ==
    {dataset.SegmentSequence[i].SegmentNumber : i \in DOMAIN dataset.SegmentSequence}

\* Some segment number is declared more than once
HasDuplicate ==
    \E i, j \in DOMAIN dataset.SegmentSequence :
        i # j /\ dataset.SegmentSequence[i].SegmentNumber = dataset.SegmentSequence[j].SegmentNumber

\* Geometry resolution has run
Resolved == size # << >>

\* The slice (1-based) frame i maps to in the resolved geometry
SliceOf(i) == FrameSliceIndex(origin, spacing, direction, Frames[i]) + 1

\* The frames among the first n that reference segment s and map to slice k
WritersOf(s, k, n) ==
    {i \in 1..n : Frames[i].ReferencedSegmentNumber = s /\ SliceOf(i) = k}

\* The frames among the first n that map to slice k with a nonzero payload at ix
MarkersOf(k, ix, n) ==
    {i \in 1..n : SliceOf(i) = k /\ dataset.pixel_array[i][ix] > 0}

\* The physical positions of the frames
Positions == {Position(Frames[i]) : i \in 1..NFrames}

\* Signed distance of position p along the slice normal from the first frame
DistanceOf(p) == Dot(Sub(p, Position(Frames[1])), SliceDir(direction))

\* s with x put in after its first i elements
InsertAt(s, i, x) == SubSeq(s, 1, i) \o <<x>> \o SubSeq(s, i + 1, Len(s))

---------------------------------------------------------------------------
\* C1: in per-segment decoding the volume of every declared segment s is a zero
\* buffer overwritten by the frames that reference s only: a slice no frame of s
\* maps to is all zero, and any other slice holds the payload of the last frame of s
\* that maps to it.
C1_VolumeOnlyFromOwnFrames ==
    reader = "SegmentReader" =>
        \A s \in DOMAIN segment_images :
            \A k \in 1..size[3] :
                LET w == WritersOf(s, k, NFrames) IN
                    IF w = {}
                    THEN \A ix \in DOMAIN segment_images[s][k] :
                             segment_images[s][k][ix] = ZeroOf(dtype)
                    ELSE segment_images[s][k] = SliceData(dataset, Max(w))

\* C2: in multi-class decoding, after the first frame_idx frames every voxel holds
\* the referenced segment number of the last of those frames that maps to its slice
\* with a nonzero payload at its pixel, and 0 if there is none (so a frame leaves
\* the voxels alone where its payload is zero; at the end frame_idx counts all frames).
C2_LastWriterWins ==
    (reader = "MultiClassReader" /\ pc \in {"multiclass_frames", "done"}) =>
        \A k \in 1..size[3] :
            \A ix \in DOMAIN segment_buffer[k] :
                LET w == MarkersOf(k, ix, frame_idx) IN
                    segment_buffer[k][ix] =
                        IF w = {} THEN 0 ELSE Frames[Max(w)].ReferencedSegmentNumber

\* C3: multi-class decoding of a dataset whose kind is not BINARY or whose overlap
\* flag is YES never allocates or writes the buffer and never yields an image; once
\* catalog and geometry are through it fails with UnsupportedSegmentationType (kind
\* not BINARY) or else OverlappingSegments (flag YES), however small the segment
\* numbers; and OverlappingSegments is raised for the flag YES only.
C3_PreconditionsFatal ==
    reader = "MultiClassReader" =>
        /\ (TypeRejected(dataset.SegmentationType) \/ dataset.SegmentsOverlap = "YES") =>
              /\ pc \in {"decode_segments", "geometry", "decode", "failed"}
              /\ segment_buffer = << >>
              /\ image = << >>
              /\ (pc = "failed" /\ Resolved) =>
                    error = IF TypeRejected(dataset.SegmentationType)
                            THEN "UnsupportedSegmentationType"
                            ELSE "OverlappingSegments"
        /\ error = "OverlappingSegments" => dataset.SegmentsOverlap = "YES"
        /\ error = "UnsupportedSegmentationType" => dataset.SegmentationType # "BINARY"
        /\ error \in {"OverlappingSegments", "UnsupportedSegmentationType"} =>
              segment_buffer = << >> /\ image = << >>

\* C3 witness: the flag YES is fatal with one declared segment, number 1.
C3_Witness ==
    /\ reader = "MultiClassReader"
    /\ pc = "failed"
    /\ error = "OverlappingSegments"
    /\ DeclaredNumbers = {1}
    /\ segment_buffer = << >>

\* C4: a session whose dataset has a frame referencing an undeclared segment number
\* never completes and never yields a volume.
C4_UndeclaredReferenceFails ==
    (\E i \in 1..NFrames : Frames[i].ReferencedSegmentNumber \notin DeclaredNumbers) =>
        /\ pc # "done"
        /\ image = << >>

\* C5: a repeated segment number ends the session with DuplicateSegment before the
\* geometry is resolved or a buffer exists; otherwise the catalog holds one
\* SegmentInfo per declaration, in order, under the declared number.
C5_DuplicateSegment ==
    /\ HasDuplicate =>
          /\ pc \in {"decode_segments", "failed"}
          /\ pc = "failed" => error = "DuplicateSegment"
          /\ ~Resolved /\ origin = << >> /\ spacing = << >> /\ direction = << >>
          /\ segment_buffer = << >> /\ segment_images = << >> /\ image = << >>
    /\ (~HasDuplicate /\ pc # "decode_segments") =>
          /\ error # "DuplicateSegment"
          /\ Len(segment_infos) = Len(dataset.SegmentSequence)
          /\ Cardinality({segment_infos[i].number : i \in 1..Len(segment_infos)})
                 = Len(segment_infos)
          /\ \A i \in 1..Len(segment_infos) :
                segment_infos[i] = SegmentInfo(dataset.SegmentSequence[i])

\* C5 witness: a session ended by a repeated segment number.
C5_Witness ==
    /\ HasDuplicate
    /\ pc = "failed"
    /\ error = "DuplicateSegment"

\* C6: in multi-class decoding the element type is 8-bit exactly when the largest
\* declared number is below 256, every value written fits the element type, and
\* every voxel is 0 or a declared segment number.
C6_VoxelsAreDeclaredNumbers ==
    (reader = "MultiClassReader" /\ pc \in {"multiclass_frames", "done"}) =>
        /\ dtype = "uint8" <=> Max(DeclaredNumbers) < 256
        /\ dtype \in {"uint8", "uint16"}
        /\ \A i \in 1..frame_idx :
              Frames[i].ReferencedSegmentNumber < Pow2(DtypeBits(dtype))
        /\ \A k \in 1..size[3] :
              \A ix \in DOMAIN segment_buffer[k] :
                  segment_buffer[k][ix] \in {0} \cup DeclaredNumbers

---------------------------------------------------------------------------
\* The properties of geometry resolution, stated of the state __init__ leaves
\* behind (pc = "decode" is the state right after lines 51-54).

\* The largest minus the smallest coordinate of the frame positions along the
\* slice normal: a function of the set of positions
NormalExtent ==
    LET c == {Dot(p, SliceDir(direction)) : p \in Positions}
    IN  Max(c) - Min(c)

\* The frame positions at the minimum distance along the slice normal
LowestPositions ==
    {p \in Positions : \A q \in Positions : DistanceOf(p) <= DistanceOf(q)}

\* C7: the slice count is ceil(extent / z_spacing) + 1, the extent being the
\* largest minus the smallest signed distance of the frame positions along the
\* slice normal, which depends on the set of positions and not on their order.
C7_SliceCount ==
    Resolved =>
        /\ extent = NormalExtent
        /\ Cardinality(Positions) = 1 => extent = 0 /\ size[3] = 1
        /\ size[3] = Ceil(NormalExtent, spacing[3]) + 1

\* C7 witness: z_spacing 2 and frames at z = 0 and z = 4 give 3 slices.
C7_Witness ==
    /\ pc = "decode"
    /\ Positions = {<<0, 0, 0>>, <<0, 0, 4>>}
    /\ SliceDir(direction) = <<0, 0, 1>>
    /\ spacing[3] = 2
    /\ size[3] = 3

\* C8, as claimed: a further frame at the position of an existing frame, put
\* anywhere in the list, leaves extent, slice count and origin as they are.
C8_DuplicateFrameChangesNothing ==
    pc = "decode" =>
        \A i \in 0..NFrames : \A j \in 1..NFrames :
            \A r \in {get_image_origin_and_extent(InsertAt(Frames, i, Frames[j]), direction)} :
                /\ r.extent = extent
                /\ SliceCount(r.extent, spacing[3]) = size[3]
                /\ r.origin = origin

\* C8, amended: such a frame leaves extent and slice count as they are and keeps
\* the origin at the same distance along the slice normal; the origin itself stays
\* when the frame is put after the one it repeats, or when only one frame position
\* lies at the minimum distance.
C8_DuplicateFrameKeepsExtent ==
    pc = "decode" =>
        \A lowest \in {LowestPositions} :
        \A i \in 0..NFrames : \A j \in 1..NFrames :
            \A r \in {get_image_origin_and_extent(InsertAt(Frames, i, Frames[j]), direction)} :
                /\ r.extent = extent
                /\ SliceCount(r.extent, spacing[3]) = size[3]
                /\ Dot(Sub(r.origin, origin), SliceDir(direction)) = 0
                /\ (i >= j \/ Cardinality(lowest) = 1) => r.origin = origin

\* C8 witness: a resolved list in which two different positions share the minimum
\* distance and the later of them can be repeated ahead of the earlier.
C8_Witness ==
    /\ pc = "decode"
    /\ Cardinality(LowestPositions) = 2
    /\ extent > 0
    /\ \E j \in 2..NFrames : Position(Frames[j]) \in LowestPositions \ {origin}

\* C9: the origin is the position of a frame at the minimum signed distance from
\* the first frame along the slice normal; it is not the first frame's position when
\* the first frame is not a lowest one; no frame lies below the origin.
C9_OriginIsLowest ==
    Resolved =>
        /\ \A lowest \in {LowestPositions} :
              /\ origin \in lowest
              /\ Position(Frames[1]) \notin lowest => origin # Position(Frames[1])
        /\ \A p \in Positions : Dot(Sub(p, origin), SliceDir(direction)) >= 0

\* C9 witness: the first frame is not a lowest one.
C9_Witness ==
    /\ pc = "decode"
    /\ Position(Frames[1]) \notin LowestPositions
    /\ NFrames = 3
    /\ origin = Position(Frames[3])

\* C10: the slice index of every frame lies in 0 .. slice count - 1, and no write
\* of either assembler ends in an IndexError.
C10_SliceIndexInBounds ==
    /\ error # "IndexError"
    /\ Resolved =>
          /\ spacing[3] > 0
          /\ \A i \in 1..NFrames :
                /\ 0 <= FrameSliceIndex(origin, spacing, direction, Frames[i])
                /\ FrameSliceIndex(origin, spacing, direction, Frames[i]) <= size[3] - 1

\* C10 witness: a finished session whose origin is not the first frame and whose
\* extent is no multiple of the slice spacing, with a frame in the last slice.
C10_Witness ==
    /\ pc = "done"
    /\ origin # Position(Frames[1])
    /\ size[3] >= 3
    /\ extent % spacing[3] # 0
    /\ \E i \in 1..NFrames : SliceOf(i) = size[3]

====
